---- MODULE Spec2Model ----
(***************************************************************************)
(* NostrClient (core/NostrClient.ts): connection and identity management,  *)
(* publish with retry, and one-shot fetch, as a state machine.             *)
(*                                                                         *)
(* Time is counted in ticks of one second.  A timer fires at its deadline: *)
(* Tick is disabled while a timer is due.                                  *)
(***************************************************************************)
EXTENDS Integers, Sequences, FiniteSets

\* ------------------------------------------------------------------ bounds
\* Secret keys generateSecretKey() may return are 1..MaxKeys; key 0 stands
\* for bytes that are no valid secp256k1 scalar.
MaxKeys == 2
\* this.relays = 1..NumRelays
NumRelays == 2

\* publishRetry.maxAttempts ranges over 1..MaxAttemptsCfg
MaxAttemptsCfg == 3
\* publishRetry.initialDelay and .maxDelay range over 1..MaxDelayCfg ticks
MaxDelayCfg == 2
\* Date.now() is told apart up to MaxTime ticks
MaxTime == 3
\* relays hold the stored events 1..MaxEvents
MaxEvents == 2
\* fetch(filter, timeoutMs) is called with timeoutMs in 1..MaxTimeout ticks
MaxTimeout == 2
\* subscribe(filters, onEvent) is called with 0..MaxFilters filters
MaxFilters == 2
\* the unsubscribe action of one subscribe() call is called up to MaxUnsubs times
MaxUnsubs == 3

ValidKeys == 1..MaxKeys
Relays == 1..NumRelays

\* RetryOptions the constructor may be given (initialDelay <= maxDelay)
RetryConfigs ==
    {c \in [maxAttempts : 1..MaxAttemptsCfg, initialDelay : 1..MaxDelayCfg,
             maxDelay : 1..MaxDelayCfg] : c.initialDelay <= c.maxDelay}

\* ------------------------------------------------------- keys and encodings
\* secretKey: Uint8Array | null
NullKey == -1
\* _publicKey: string = ''
EmptyPub == <<"", 0>>

\* Texts a storage slot can hold: <<prefix, payload>>.
NoItem == <<"null", 0>>
CorruptNsec == <<"nsec1", -1>>
OtherText == <<"npub1", 1>>

\* nsecEncode(key): bech32 text with the nsec prefix
nsecEncode(k) == <<"nsec1", k>>

\* storedNsec?.startsWith('nsec1'); null is falsy
startsWithNsec1(s) == s # NoItem /\ s[1] = "nsec1"

\* decode(text): throws on a bad checksum (ok = FALSE); the type is the
\* prefix; the payload bytes are returned unvalidated.
decode(s) ==
    IF s[1] = "nsec1" /\ s[2] >= 0 THEN [ok |-> TRUE, type |-> "nsec", data |-> s[2]]
    ELSE IF s[1] = "npub1" THEN [ok |-> TRUE, type |-> "npub", data |-> s[2]]
    ELSE [ok |-> FALSE, type |-> "none", data |-> NullKey]

\* getPublicKey(secretKey) throws when the bytes are no valid scalar
validScalar(k) == k \in ValidKeys
getPublicKey(k) == <<"pub", k>>

StoredTexts == {NoItem, CorruptNsec, OtherText} \cup {nsecEncode(k) : k \in 0..MaxKeys}

\* --------------------------------------------------------------- variables
VARIABLES
    pool,          \* this.pool: FALSE = null, TRUE = a SimplePool
    conns,         \* relays the pool holds a connection to
    secretKey,     \* this.secretKey
    publicKey,     \* this._publicKey
    isConnected,   \* this._isConnected
    stored,        \* storage slot `${storageKeyPrefix}-nsec`
    getThrows,     \* storage.getItem throws
    setThrows,     \* storage.setItem throws
    firstPub,      \* public key after the first successful connect()
    io,            \* storage traffic of connect(), when it was the last call
    now,           \* Date.now(), in ticks, capped at MaxTime
    publishRetry,  \* this.publishRetry
    pub,           \* the latest publish() call
    fet,           \* the latest fetch() call
    sub            \* the latest subscribe() call and its unsubscribe action

clientVars == <<pool, conns, secretKey, publicKey, isConnected>>
storageVars == <<stored, getThrows, setThrows>>
vars == <<pool, conns, secretKey, publicKey, isConnected, stored, getThrows, setThrows,
          firstPub, io, now, publishRetry, sub, pub, fet, sub>>

NoIo == [threw |-> FALSE, reads |-> 0, writes |-> 0, generated |-> FALSE]

\* ------------------------------------------------------------- constructor
InitClient ==
    /\ pool = FALSE
    /\ conns = {}
    /\ secretKey = NullKey
    /\ publicKey = EmptyPub
    /\ isConnected = FALSE

InitStorage ==
    /\ stored \in StoredTexts
    /\ getThrows \in BOOLEAN
    /\ setThrows \in BOOLEAN

\* ----------------------------------------------------------------- publish
NoOutcome == [r \in Relays |-> "none"]
NoEvent == [created_at |-> -1, pubkey |-> EmptyPub]
\* calledConnected: isConnected when the call was made; timer: ticks left of
\* withRetry's sleep; waited: ticks slept since the last failed attempt;
\* delays: the sleeps asked for so far
NoPublish == [state |-> "none", err |-> "none", signs |-> 0, event |-> NoEvent,
              attempt |-> 0, outcome |-> NoOutcome, alive |-> FALSE, sent |-> {},
              timer |-> -1, waited |-> 0, delays |-> <<>>, calledConnected |-> FALSE]

\* finalizeEvent({..., created_at: Math.floor(Date.now() / 1000)}, secretKey):
\* the id and the signature are functions of these fields
finalizeEvent(t, sk) == [created_at |-> t, pubkey |-> getPublicKey(sk)]

\* only the first relay, a plausible slip for this.relays
firstRelayOnly == {1}

\* the relays pool.publish(this.relays, event) sends to
publishTargets == Relays

\* Promise.all, a plausible slip for Promise.any
promiseAll(outcome) ==
    IF \A r \in publishTargets : outcome[r] = "ok" THEN "fulfilled"
    ELSE IF \E r \in publishTargets : outcome[r] = "fail" THEN "rejected"
    ELSE "pending"

\* Promise.any over the per-relay promises of pool.publish(relays, event)
promiseAny(outcome) ==
    IF \E r \in publishTargets : outcome[r] = "ok" THEN "fulfilled"
    ELSE IF \A r \in publishTargets : outcome[r] = "fail" THEN "rejected"
    ELSE "pending"

\* the constructor's default: { maxAttempts: 3, initialDelay: 1000, maxDelay: 5000 }
defaultPublishRetry == [maxAttempts |-> 3, initialDelay |-> 1, maxDelay |-> 5]

\* withRetry called without this.publishRetry
retryOptionsDropped == defaultPublishRetry

\* the options publish() hands to withRetry
retryOptions == publishRetry

Min(a, b) == IF a < b THEN a ELSE b

RECURSIVE pow2(_)
pow2(n) == IF n <= 0 THEN 1 ELSE 2 * pow2(n - 1)

\* withRetry: the delay after the n-th failed attempt (bounded exponential)
backoffDelay(opts, n) == Min(opts.initialDelay * pow2(n - 1), opts.maxDelay)

\* withRetry: an attempt of call p failed at time `now`
attemptFailed(p) ==
    IF p.attempt < retryOptions.maxAttempts
    THEN [p EXCEPT !.state = "backoff",
                   !.timer = backoffDelay(retryOptions, p.attempt),
                   !.waited = 0,
                   !.delays = Append(p.delays, backoffDelay(retryOptions, p.attempt))]
    ELSE [p EXCEPT !.state = "rejected", !.err = "PublishFailed"]

\* an attempt that signs the template again
resignedEvent(p) == finalizeEvent(now, secretKey)

\* the event an attempt sends: the one publish() signed before withRetry
attemptEvent(p) == p.event

\* the pool captured when publish() was called, which was not null
capturedPool == TRUE

\* this.pool, read when the attempt starts
attemptPool == pool

\* withRetry calls fn(): this.pool!.publish(this.relays, event) throws when
\* this.pool is null, and otherwise sends the event to every relay
startAttempt(p) ==
    LET q == [p EXCEPT !.attempt = p.attempt + 1, !.timer = -1]
    IN  IF ~attemptPool
        THEN attemptFailed([q EXCEPT !.outcome = NoOutcome, !.alive = FALSE])
        ELSE [q EXCEPT !.state = "attempting",
                       !.outcome = [r \in Relays |-> IF r \in publishTargets
                                                      THEN "pending" ELSE "none"],
                       !.alive = TRUE,
                       !.sent = p.sent \cup {[attempt |-> q.attempt,
                                              event |-> attemptEvent(p),
                                              connected |-> isConnected]}]

\* the call after one relay's promise settled
relaySettled(p, r, o) ==
    LET q == [p EXCEPT !.outcome[r] = o]
    IN  IF p.state # "attempting" THEN q
        ELSE IF promiseAny(q.outcome) = "fulfilled" THEN [q EXCEPT !.state = "resolved"]
        ELSE IF promiseAny(q.outcome) = "rejected" THEN attemptFailed(q)
        ELSE q

\* if (!this.secretKey), a plausible slip for the guard of publish
publishNoKey == secretKey = NullKey

\* if (!this.pool || !this.secretKey)
publishNotConnected == ~pool \/ secretKey = NullKey

\* publish(eventTemplate); pub follows the latest call
PublishCall ==
    /\ IF publishNotConnected
       THEN /\ pub' = [NoPublish EXCEPT !.state = "rejected", !.err = "NotConnected",
                                        !.calledConnected = isConnected]
            /\ UNCHANGED conns
       ELSE /\ pub' = startAttempt([NoPublish EXCEPT !.signs = 1,
                                       !.event = finalizeEvent(now, secretKey),
                                       !.calledConnected = isConnected])
            /\ conns' = IF pool THEN conns \cup publishTargets ELSE conns
    /\ UNCHANGED <<pool, secretKey, publicKey, isConnected, storageVars, firstPub, io,
                   now, publishRetry, sub, fet>>

\* a relay answers OK to the event of the current attempt
RelayAccept(r) ==
    /\ pub.outcome[r] = "pending"
    /\ pub.alive
    /\ pub' = relaySettled(pub, r, "ok")
    /\ UNCHANGED <<clientVars, storageVars, firstPub, io, now, publishRetry, sub, fet>>

\* a relay rejects the event, or its connection fails
RelayReject(r) ==
    /\ pub.outcome[r] = "pending"
    /\ pub' = relaySettled(pub, r, "fail")
    /\ UNCHANGED <<clientVars, storageVars, firstPub, io, now, publishRetry, sub, fet>>

\* withRetry's sleep ends: the next attempt
RetryTimer ==
    /\ pub.state = "backoff"
    /\ pub.timer = 0
    /\ pub' = startAttempt(pub)
    /\ conns' = IF pool THEN conns \cup publishTargets ELSE conns
    /\ UNCHANGED <<pool, secretKey, publicKey, isConnected, storageVars, firstPub, io,
                   now, publishRetry, sub, fet>>

\* ------------------------------------------------------------------- fetch
\* Close reasons, as the characters of their text.
AutoEoseText ==
    <<"c", "l", "o", "s", "e", "d", " ", "a", "u", "t", "o", "m", "a", "t", "i", "c",
      "a", "l", "l", "y", " ", "o", "n", " ", "e", "o", "s", "e">>
UpperEoseText ==
    <<"E", "O", "S", "E">>
ConnClosedText ==
    <<"r", "e", "l", "a", "y", " ", "c", "o", "n", "n", "e", "c", "t", "i", "o", "n",
      " ", "c", "l", "o", "s", "e", "d">>
ByCallerText ==
    <<"c", "l", "o", "s", "e", "d", " ", "b", "y", " ", "c", "a", "l", "l", "e", "r">>
EoseNeedle ==
    <<"e", "o", "s", "e">>
UpperChars ==
    <<"A", "B", "C", "D", "E", "F", "G", "H", "I", "J", "K", "L", "M", "N", "O", "P",
      "Q", "R", "S", "T", "U", "V", "W", "X", "Y", "Z">>
LowerChars ==
    <<"a", "b", "c", "d", "e", "f", "g", "h", "i", "j", "k", "l", "m", "n", "o", "p",
      "q", "r", "s", "t", "u", "v", "w", "x", "y", "z">>

\* the reasons a relay subscription can close with; "non-string" is a reason
\* that is no string
ReasonIds == {"auto-eose", "EOSE", "conn-closed", "by-caller", "non-string"}
isString(id) == id # "non-string"
reasonText(id) ==
    CASE id = "auto-eose" -> AutoEoseText
      [] id = "EOSE" -> UpperEoseText
      [] id = "conn-closed" -> ConnClosedText
      [] id = "by-caller" -> ByCallerText
      [] OTHER -> <<>>

\* the test without toLowerCase()
keepCase(t) == t

\* r.toLowerCase()
toLowerCase(t) ==
    [i \in 1..Len(t) |->
        IF \E j \in 1..Len(UpperChars) : UpperChars[j] = t[i]
        THEN LowerChars[CHOOSE j \in 1..Len(UpperChars) : UpperChars[j] = t[i]]
        ELSE t[i]]

\* t.includes(needle)
includes(t, needle) ==
    \E k \in 0..(Len(t) - Len(needle)) :
        \A i \in 1..Len(needle) : t[k + i] = needle[i]

\* reasons.some((r) => typeof r === 'string' && r.toLowerCase().includes('eose'))
hasEose(reasons) ==
    \E r \in Relays :
        isString(reasons[r]) /\ includes(toLowerCase(reasonText(reasons[r])), EoseNeedle)

\* relay[r]: "open" until relay r signals EOSE, "closed" once its
\* subscription has closed; reason[r]: why it closed; eoseSeen: some relay
\* signalled EOSE during the call; timer: ticks left of the setTimeout
\* (-1: none, or fired); arrived: the events in the order the relays
\* delivered them; elapsed: ticks since the call while its timer runs
NoFetch == [state |-> "none", err |-> "none", resolved |-> FALSE, resolves |-> 0,
            rejects |-> 0, events |-> <<>>, result |-> <<>>, arrived |-> <<>>,
            elapsed |-> 0,
            relay |-> [r \in Relays |-> "none"], reason |-> [r \in Relays |-> "none"],
            closeFired |-> FALSE, subOpen |-> FALSE, subCloses |-> 0,
            eoseSeen |-> FALSE, timeoutMs |-> 0, timer |-> -1,
            calledConnected |-> FALSE]

\* a relay subscription that has a close reason is closed
closeReasoned(f) ==
    [f EXCEPT !.relay = [r \in Relays |-> IF f.reason[r] # "none" THEN "closed"
                                          ELSE f.relay[r]]]

\* finish without its sub.close()
closeSubSkipped(f) == f

\* sub.close(): every relay subscription still open closes 'closed by caller'
closeSub(f) ==
    closeReasoned(
        [f EXCEPT !.subOpen = FALSE,
                  !.subCloses = Min(f.subCloses + 1, 2),
                  !.reason = [r \in Relays |-> IF f.reason[r] = "none" THEN "by-caller"
                                               ELSE f.reason[r]]])

\* resolve(events) / reject(error) of the promise: only the first one settles
\* it, every call is counted
settle(f, success, error) ==
    IF success
    THEN [f EXCEPT !.resolves = f.resolves + 1,
                   !.state = IF f.state = "pending" THEN "resolved" ELSE f.state,
                   !.result = IF f.state = "pending" THEN f.events ELSE f.result]
    ELSE [f EXCEPT !.rejects = f.rejects + 1,
                   !.state = IF f.state = "pending" THEN "rejected" ELSE f.state,
                   !.err = IF f.state = "pending" THEN error ELSE f.err]

\* finish without its latch
finishUnlatched(f, success, error) ==
    settle(closeSub([f EXCEPT !.resolved = TRUE]), success, error)

\* finish(success, error)
finish(f, success, error) ==
    IF f.resolved THEN f
    ELSE settle(closeSub([f EXCEPT !.resolved = TRUE]), success, error)

\* subscribeManyEose: once every relay has signalled EOSE or closed, the pool
\* closes the subscriptions still open with 'closed automatically on eose'
autoClose(f) ==
    closeReasoned(
        IF \A r \in Relays : f.relay[r] = "eose" \/ f.reason[r] # "none"
        THEN [f EXCEPT !.reason = [r \in Relays |-> IF f.reason[r] = "none"
                                                    THEN "auto-eose"
                                                    ELSE f.reason[r]]]
        ELSE f)

\* events.unshift(event), a plausible slip for push
unshiftEvent(events, e) == <<e>> \o events

\* events.push(event)
pushEvent(events, e) == Append(events, e)

\* setTimeout(..., 0), a plausible slip for timeoutMs
zeroTimerDelay(timeoutMs) == 0

\* setTimeout(..., timeoutMs)
fetchTimerDelay(timeoutMs) == timeoutMs

\* a call that inherits the `resolved` latch of the call before it
latchKept == [NoFetch EXCEPT !.resolved = fet.resolved]

\* const events = []; let resolved = false: the state a call starts with
freshFetch == NoFetch

\* fetch(filter, timeoutMs); fet follows the latest call
FetchCall(timeoutMs) ==
    /\ IF ~pool
       THEN /\ fet' = [NoFetch EXCEPT !.state = "rejected", !.err = "NotConnected",
                                      !.calledConnected = isConnected]
            /\ UNCHANGED conns
       ELSE /\ fet' = [freshFetch EXCEPT !.state = "pending",
                                      !.relay = [r \in Relays |-> "open"],
                                      !.subOpen = TRUE,
                                      !.timeoutMs = timeoutMs,
                                      !.timer = fetchTimerDelay(timeoutMs),
                                      !.calledConnected = isConnected]
            /\ conns' = conns \cup Relays
    /\ UNCHANGED <<pool, secretKey, publicKey, isConnected, storageVars, firstPub, io,
                   now, publishRetry, sub, pub>>

\* onevent: a relay delivers a stored event the pool has not seen yet
RelayEvent(r, e) ==
    /\ fet.relay[r] = "open"
    /\ fet.reason[r] = "none"
    /\ \A i \in 1..Len(fet.events) : fet.events[i] # e
    /\ fet' = [fet EXCEPT !.events = pushEvent(fet.events, e),
                          !.arrived = Append(fet.arrived, e)]
    /\ UNCHANGED <<clientVars, storageVars, firstPub, io, now, publishRetry, sub, pub>>

\* the handlers fetch passes are onevent and onclose: an EOSE of one relay
\* reaches only the pool
onRelayEose(f, r) == autoClose([f EXCEPT !.relay[r] = "eose", !.eoseSeen = TRUE])

\* a relay signals end of stored events
RelayEose(r) ==
    /\ fet.relay[r] = "open"
    /\ fet.reason[r] = "none"
    /\ fet' = onRelayEose(fet, r)
    /\ UNCHANGED <<clientVars, storageVars, firstPub, io, now, publishRetry, sub, pub>>

\* a relay closes its subscription itself, or fails to connect
RelayClose(r, why) ==
    /\ fet.relay[r] \in {"open", "eose"}
    /\ fet.reason[r] = "none"
    /\ fet' = autoClose([fet EXCEPT !.reason[r] = why])
    /\ UNCHANGED <<clientVars, storageVars, firstPub, io, now, publishRetry, sub, pub>>

\* the pool calls onclose(reasons) once, when every relay has closed
PoolOnClose ==
    /\ \A r \in Relays : fet.reason[r] # "none"
    /\ ~fet.closeFired
    /\ fet' = LET f == [fet EXCEPT !.closeFired = TRUE]
              IN  IF hasEose(f.reason) THEN finish(f, TRUE, "none")
                  ELSE finish(f, FALSE, "NoRelayResponse")
    /\ UNCHANGED <<clientVars, storageVars, firstPub, io, now, publishRetry, sub, pub>>

\* the setTimeout callback of fetch
FetchTimeout ==
    /\ fet.timer = 0
    /\ fet' = LET f == finish(fet, FALSE, "Timeout")
              IN  [f EXCEPT !.timer = -1]
    /\ UNCHANGED <<clientVars, storageVars, firstPub, io, now, publishRetry, sub, pub>>

\* --------------------------------------------------------------- subscribe
\* handle: what subscribe() returned ("noop": () => {}, "closer": () =>
\* sub.close()); why: what it warned about; filter: the index of the filter
\* subscribed to; relayOpen: the relays with an open subscription; delivered:
\* calls of onEvent; unsubs: calls of the unsubscribe action; closedBy: what
\* closed the relay subscriptions; calledPool: this.pool at the call
NoSub == [handle |-> "none", why |-> "none", nFilters |-> 0, filter |-> 0,
          relayOpen |-> {}, delivered |-> 0, unsubs |-> 0, closedBy |-> "none",
          calledPool |-> FALSE]

\* subscribe() without its filters.length check
neverNoFilters(n) == FALSE

\* if (filters.length === 0)
noFilters(n) == n = 0

\* sub.close(): the relay subscriptions still open close; a closed
\* subscription stays as it is
subClose(s) ==
    [s EXCEPT !.relayOpen = {},
              !.closedBy = IF s.relayOpen # {} THEN "caller" ELSE s.closedBy]

\* subscribe() returning () => {} after subscribeMany succeeded
noopUnsubscribe(s) == s

\* () => { sub.close(); }
closerUnsubscribe(s) == subClose(s)

\* subscribe(filters, onEvent) with n filters; subscribeMany throws iff thrown
SubscribeCall(n, thrown) ==
    /\ IF ~pool
       THEN /\ sub' = [NoSub EXCEPT !.handle = "noop", !.why = "NotConnected",
                                    !.nFilters = n, !.calledPool = pool]
            /\ UNCHANGED conns
       ELSE IF noFilters(n)
       THEN /\ sub' = [NoSub EXCEPT !.handle = "noop", !.why = "NoFilters",
                                    !.nFilters = n, !.calledPool = pool]
            /\ UNCHANGED conns
       ELSE IF thrown
       THEN /\ sub' = [NoSub EXCEPT !.handle = "noop", !.why = "SubscribeFailed",
                                    !.nFilters = n, !.calledPool = pool]
            /\ UNCHANGED conns
       ELSE /\ sub' = [NoSub EXCEPT !.handle = "closer", !.nFilters = n,
                                    !.filter = 1, !.relayOpen = Relays,
                                    !.calledPool = pool]
            /\ conns' = conns \cup Relays
    /\ UNCHANGED <<pool, secretKey, publicKey, isConnected, storageVars, firstPub, io,
                   now, publishRetry, pub, fet>>

\* onevent: a relay delivers a matching event, onEvent is called with it
SubEvent(r) ==
    /\ r \in sub.relayOpen
    /\ sub.delivered < MaxEvents
    /\ sub' = [sub EXCEPT !.delivered = sub.delivered + 1]
    /\ UNCHANGED <<clientVars, storageVars, firstPub, io, now, publishRetry, pub, fet>>

\* the unsubscribe action subscribe() returned is called
Unsubscribe ==
    /\ sub.handle # "none"
    /\ sub.unsubs < MaxUnsubs
    /\ sub' = LET s == IF sub.handle = "closer" THEN closerUnsubscribe(sub) ELSE sub
              IN  [s EXCEPT !.unsubs = sub.unsubs + 1]
    /\ UNCHANGED <<clientVars, storageVars, firstPub, io, now, publishRetry, pub, fet>>

\* pool.close(this.relays) on a live subscription: its relay subscriptions
\* close with the connections
subConnectionsClosed(s) ==
    [s EXCEPT !.relayOpen = {},
              !.closedBy = IF s.relayOpen # {} THEN "disconnect" ELSE s.closedBy]

\* -------------------------------------------------------------------- time
timerDue == pub.timer = 0 \/ fet.timer = 0

\* one tick passes: the clock advances and every running timer counts down
Tick ==
    /\ ~timerDue
    /\ now < MaxTime \/ pub.timer > 0 \/ fet.timer > 0
    /\ now' = Min(now + 1, MaxTime)
    /\ pub' = IF pub.timer > 0
              THEN [pub EXCEPT !.timer = pub.timer - 1, !.waited = pub.waited + 1]
              ELSE pub
    /\ fet' = IF fet.timer > 0
              THEN [fet EXCEPT !.timer = fet.timer - 1, !.elapsed = fet.elapsed + 1]
              ELSE fet
    /\ UNCHANGED <<clientVars, storageVars, firstPub, io, publishRetry, sub>>

\* ----------------------------------------------------------------- connect
\* safeStorageSet(key, value): the slot after the call
safeStorageSet(value) == IF setThrows THEN stored ELSE value

\* connect() that ignores the stored key and always generates one
alwaysGenerateKey(g) ==
    [sk |-> g, slot |-> safeStorageSet(nsecEncode(g)), reads |-> 1, writes |-> 1,
     generated |-> TRUE]

\* Lines 125-147 of connect(): the key chosen and the storage traffic, where
\* g is what generateSecretKey() returns if it is called.
loadOrGenerateKey(g) ==
    LET fresh == [sk |-> g, slot |-> safeStorageSet(nsecEncode(g)), reads |-> 1,
                  writes |-> 1, generated |-> TRUE]
    IN  IF getThrows
        THEN [sk |-> g, slot |-> stored, reads |-> 1, writes |-> 0, generated |-> TRUE]
        ELSE IF startsWithNsec1(stored)
             THEN IF decode(stored).ok /\ decode(stored).type = "nsec"
                  THEN [sk |-> decode(stored).data, slot |-> stored, reads |-> 1,
                        writes |-> 0, generated |-> FALSE]
                  ELSE fresh
             ELSE fresh

\* connect() without its early return
neverAlreadyConnected == FALSE

\* if (this._isConnected) return
alreadyConnected == isConnected

Connect ==
    /\ IF alreadyConnected
       THEN /\ io' = NoIo
            /\ UNCHANGED <<clientVars, storageVars, firstPub>>
       ELSE \E g \in ValidKeys :
               LET r == loadOrGenerateKey(g)
               IN  /\ secretKey' = r.sk
                   /\ stored' = r.slot
                   /\ UNCHANGED <<getThrows, setThrows, conns>>
                   /\ IF validScalar(r.sk)
                      THEN /\ publicKey' = getPublicKey(r.sk)
                           /\ pool' = TRUE
                           /\ isConnected' = TRUE
                           /\ firstPub' = IF firstPub = EmptyPub THEN getPublicKey(r.sk)
                                          ELSE firstPub
                      ELSE UNCHANGED <<publicKey, pool, isConnected, firstPub>>
                   /\ io' = [threw |-> ~validScalar(r.sk), reads |-> r.reads,
                              writes |-> r.writes, generated |-> r.generated]
    /\ UNCHANGED <<now, publishRetry, sub, pub, fet>>

\* -------------------------------------------------------------- disconnect
\* pool.close(this.relays) on the fetch subscription: every relay
\* subscription still open closes 'relay connection closed'
connectionsClosed(f) ==
    autoClose([f EXCEPT !.reason = [r \in Relays |-> IF f.reason[r] = "none"
                                                      /\ f.relay[r] # "none"
                                                     THEN "conn-closed"
                                                     ELSE f.reason[r]]])

\* disconnect() that drops the pool without closing it
closedConnsNone == conns

\* pool.close(this.relays): the connections left open
closedConns == conns \ Relays

\* disconnect() that leaves _isConnected as it is
connectedFlagKept == isConnected

\* this._isConnected = false
disconnectedFlag == FALSE

\* pool.close(this.relays): the sockets close, so no relay can answer the
\* attempt in flight any more
Disconnect ==
    /\ pool' = FALSE
    /\ conns' = IF pool THEN closedConns ELSE conns
    /\ isConnected' = disconnectedFlag
    /\ pub' = IF pool THEN [pub EXCEPT !.alive = FALSE] ELSE pub
    /\ fet' = IF pool THEN connectionsClosed(fet) ELSE fet
    /\ sub' = IF pool THEN subConnectionsClosed(sub) ELSE sub
    /\ io' = NoIo
    /\ UNCHANGED <<secretKey, publicKey, storageVars, firstPub, now, publishRetry>>

\* new NostrClient(options) over the same storage; pub and fet follow the
\* calls on the new client
NewClient ==
    /\ pool' = FALSE
    /\ conns' = {}
    /\ secretKey' = NullKey
    /\ publicKey' = EmptyPub
    /\ isConnected' = FALSE
    /\ io' = NoIo
    /\ pub' = NoPublish
    /\ fet' = NoFetch
    /\ sub' = NoSub
    /\ UNCHANGED <<storageVars, firstPub, now, publishRetry>>

\* ---------------------------------------------------------- specifications
InitRest ==
    /\ firstPub = EmptyPub
    /\ io = NoIo
    /\ pub = NoPublish
    /\ fet = NoFetch
    /\ sub = NoSub

\* connect/disconnect over every storage
InitConn ==
    /\ InitClient
    /\ InitStorage
    /\ publishRetry = defaultPublishRetry
    /\ now = 0
    /\ InitRest

NextConn ==
    \/ Connect
    \/ Disconnect
    \/ NewClient

SpecConn == InitConn /\ [][NextConn]_vars

\* the calls of the client over every storage, the relays staying silent
NextCalls ==
    \/ Connect
    \/ Disconnect
    \/ NewClient
    \/ PublishCall
    \/ \E t \in 1..MaxTimeout : FetchCall(t)
    \/ \E n \in 0..MaxFilters, thrown \in BOOLEAN : SubscribeCall(n, thrown)

SpecCalls == InitConn /\ [][NextCalls]_vars

\* publish over a working storage that holds an identity, under every retry
\* configuration
InitPublish ==
    /\ InitClient
    /\ stored = nsecEncode(1)
    /\ getThrows = FALSE
    /\ setThrows = FALSE
    /\ publishRetry \in RetryConfigs
    /\ now = 0
    /\ InitRest

NextPublish ==
    \/ Connect
    \/ Disconnect
    \/ PublishCall
    \/ \E r \in Relays : RelayAccept(r)
    \/ \E r \in Relays : RelayReject(r)
    \/ RetryTimer
    \/ Tick

SpecPublish == InitPublish /\ [][NextPublish]_vars

\* fetch over a working storage that holds an identity; fetch never reads
\* the clock, which starts at its cap
InitFetch ==
    /\ InitClient
    /\ stored = nsecEncode(1)
    /\ getThrows = FALSE
    /\ setThrows = FALSE
    /\ publishRetry = defaultPublishRetry
    /\ now = MaxTime
    /\ InitRest

NextFetch ==
    \/ Connect
    \/ Disconnect
    \/ \E t \in 1..MaxTimeout : FetchCall(t)
    \/ \E r \in Relays, e \in 1..MaxEvents : RelayEvent(r, e)
    \/ \E r \in Relays : RelayEose(r)
    \/ \E r \in Relays, why \in {"EOSE", "conn-closed", "non-string"} : RelayClose(r, why)
    \/ PoolOnClose
    \/ FetchTimeout
    \/ Tick

SpecFetch == InitFetch /\ [][NextFetch]_vars

\* fetch, one call at a time, the relays holding one stored event; time
\* passes and a timer that is due fires
NextFetchLive ==
    \/ Connect
    \/ Disconnect
    \/ \E t \in 1..MaxTimeout : fet.timer < 0 /\ FetchCall(t)
    \/ \E r \in Relays : RelayEvent(r, 1)
    \/ \E r \in Relays : RelayEose(r)
    \/ \E r \in Relays, why \in {"EOSE", "conn-closed", "non-string"} : RelayClose(r, why)
    \/ PoolOnClose
    \/ FetchTimeout
    \/ Tick

SpecFetchLive ==
    InitFetch /\ [][NextFetchLive]_vars /\ WF_vars(Tick) /\ WF_vars(FetchTimeout)

\* publish and fetch against relays that reject, close or stay silent
NextFailures ==
    \/ Connect
    \/ Disconnect
    \/ PublishCall
    \/ \E r \in Relays : RelayReject(r)
    \/ RetryTimer
    \/ \E t \in 1..MaxTimeout : FetchCall(t)
    \/ \E r \in Relays : RelayClose(r, "conn-closed")
    \/ PoolOnClose
    \/ FetchTimeout
    \/ Tick

SpecFailures == InitFetch /\ [][NextFailures]_vars

\* subscribe and its unsubscribe action over a working storage that holds an
\* identity
NextSubscribe ==
    \/ Connect
    \/ Disconnect
    \/ \E n \in 0..MaxFilters, thrown \in BOOLEAN : SubscribeCall(n, thrown)
    \/ \E r \in Relays : SubEvent(r)
    \/ Unsubscribe

SpecSubscribe == InitFetch /\ [][NextSubscribe]_vars

\* ------------------------------------------------------------------ claims
accepted == {r \in Relays : pub.outcome[r] = "ok"}
rejecting == {r \in Relays : pub.outcome[r] = "fail"}

\* C3: publish sends the event to every configured relay at once, and when at
\* least one relay accepts on the first attempt the call resolves after that
\* one attempt, with no retry and no backoff delay, whatever the others do.
C3_AnyAcceptResolvesFirstAttempt ==
    /\ pub.state = "attempting" => \A r \in Relays : pub.outcome[r] # "none"
    /\ (pub.attempt = 1 /\ accepted # {}) =>
          /\ pub.state = "resolved"
          /\ pub.err = "none"
          /\ pub.delays = <<>>
          /\ Cardinality(pub.sent) = 1

\* exactly one relay accepted the first attempt and every other rejected
C3_Witness ==
    /\ pub.state = "resolved"
    /\ pub.attempt = 1
    /\ Cardinality(accepted) = 1
    /\ accepted \cup rejecting = Relays
    /\ NumRelays > 1

C5_BoundedRetryBudget ==
    /\ pub.attempt <= publishRetry.maxAttempts
    /\ \A i \in 1..Len(pub.delays) : pub.delays[i] <= publishRetry.maxDelay
    /\ Len(pub.delays) <= publishRetry.maxAttempts - 1
    /\ accepted # {} => pub.state = "resolved"
    /\ pub.state = "backoff" => pub.attempt < publishRetry.maxAttempts
    /\ pub.err = "PublishFailed" =>
          /\ pub.state = "rejected"
          /\ pub.attempt = publishRetry.maxAttempts
          /\ Len(pub.delays) = publishRetry.maxAttempts - 1

\* three attempts were sent, every relay rejected each, and the call failed
C5_Witness ==
    /\ pub.err = "PublishFailed"
    /\ pub.attempt = 3
    /\ Cardinality(pub.sent) = 3
    /\ rejecting = Relays

\* C1: the promise of a fetch() call is settled at most once, whatever the
\* order of relay events, the close callback and the timeout timer.
C1_SettledAtMostOnce ==
    /\ fet.resolves + fet.rejects <= 1
    /\ fet.state = "pending" <=> (fet.subOpen /\ fet.resolves + fet.rejects = 0)
    /\ fet.state = "resolved" => (fet.resolves = 1 /\ fet.err = "none")
    /\ fet.state = "rejected" /\ fet.calledConnected => fet.rejects = 1

\* finish ran twice: the timer fired and the close callback arrived
C1_Witness ==
    /\ fet.timeoutMs > 0
    /\ fet.timer = -1
    /\ fet.closeFired
    /\ fet.resolves + fet.rejects = 1

\* C2: a fetch on which a relay signalled end-of-stored-events before
\* timeoutMs resolves with the events received so far; it is not rejected
\* with the timeout error.
C2_ResolvesOnFirstEose ==
    ~(fet.err = "Timeout" /\ fet.eoseSeen)

\* C6: publish() and fetch() on a client that is not connected fail with
\* NotConnected, sign nothing, send nothing, open no subscription and start no
\* timer.
C6_NotConnectedFailsClean ==
    /\ (pub.state # "none" /\ ~pub.calledConnected) =>
          /\ pub.state = "rejected"
          /\ pub.err = "NotConnected"
          /\ pub.signs = 0
          /\ pub.event = NoEvent
          /\ pub.sent = {}
          /\ pub.attempt = 0
          /\ pub.timer = -1
          /\ pub.delays = <<>>
    /\ (fet.state # "none" /\ ~fet.calledConnected) =>
          /\ fet.state = "rejected"
          /\ fet.err = "NotConnected"
          /\ ~fet.subOpen
          /\ fet.subCloses = 0
          /\ fet.timer = -1
          /\ fet.timeoutMs = 0
          /\ \A r \in Relays : fet.relay[r] = "none"
    /\ ~isConnected => conns = {}

\* both calls were made after a disconnect() and failed
C6_Witness ==
    /\ ~isConnected
    /\ secretKey # NullKey
    /\ pub.err = "NotConnected"
    /\ fet.err = "NotConnected"

\* C7: connect() on a connected client changes no key, pool or stored text
\* and does no storage read or write; a connect() right after a connect()
\* that threw leaves the same state again.
C7_ConnectIdempotent ==
    [][/\ (isConnected /\ isConnected') =>
             /\ UNCHANGED <<secretKey, publicKey, pool, conns, stored>>
             /\ io' = NoIo
       /\ (io.threw /\ io'.reads = 1) =>
             /\ UNCHANGED <<secretKey, publicKey, pool, conns, isConnected, stored>>
             /\ io' = io]_vars

\* a connect() call on a connected client has returned
C7_Witness ==
    /\ isConnected
    /\ io = NoIo
    /\ stored = nsecEncode(secretKey)

\* C8: whatever the storage does, a connect() call returns without throwing
\* and leaves the client connected with a secret key, its public key and a
\* pool.
C8_ConnectNeverThrows ==
    io.reads = 1 =>
        /\ ~io.threw
        /\ isConnected
        /\ pool
        /\ validScalar(secretKey)
        /\ publicKey = getPublicKey(secretKey)

\* the stored text parses as an nsec
parseable(s) == s # NoItem /\ s[1] = "nsec1" /\ s[2] >= 0

\* C9: connect() generates a key only when getItem throws or the stored text
\* is absent or unparseable; a parseable stored key is adopted as it is and
\* nothing is written; with a working storage the public key after every
\* connect() is the one after the first.
C9_IdentityReused ==
    /\ []((isConnected /\ ~getThrows /\ ~setThrows) => publicKey = firstPub)
    /\ [][(~isConnected /\ isConnected') =>
             IF ~getThrows /\ parseable(stored)
             THEN /\ secretKey' = stored[2]
                  /\ stored' = stored
                  /\ io'.writes = 0
                  /\ ~io'.generated
             ELSE /\ io'.generated
                  /\ setThrows \/ getThrows \/ stored' = nsecEncode(secretKey')]_vars

\* a later connect() adopted the key an earlier connect() had generated
C9_Witness ==
    /\ isConnected
    /\ io.reads = 1
    /\ ~io.generated
    /\ io.writes = 0
    /\ publicKey = firstPub
    /\ stored = nsecEncode(secretKey)

\* C10: disconnect() closes the connection to every configured relay and
\* clears the pool and the connected flag; on a client without a pool it
\* changes nothing.
C10_DisconnectIdempotent ==
    [][/\ (isConnected /\ ~isConnected') =>
             /\ ~pool'
             /\ conns' = {}
             /\ UNCHANGED <<secretKey, publicKey, stored>>
       /\ (~pool /\ ~isConnected') =>
             UNCHANGED <<pool, conns, secretKey, publicKey, isConnected, stored>>]_vars

\* disconnect() closed the connections a publish attempt had opened, and
\* was then called again
C10_Witness ==
    /\ ~isConnected
    /\ ~pool
    /\ conns = {}
    /\ pub.state = "attempting"
    /\ ~pub.alive

\* C11: the unsubscribe action subscribe() returned closes the relay
\* subscriptions on its first call; every later call, and every call after
\* disconnect(), changes nothing of the subscription or the client.
C11_UnsubscribeIdempotent ==
    /\ [](sub.unsubs >= 1 => sub.relayOpen = {})
    /\ [][sub'.unsubs = sub.unsubs + 1 =>
             /\ UNCHANGED <<pool, conns, secretKey, publicKey, isConnected, stored>>
             /\ sub'.relayOpen = {}
             /\ sub.relayOpen # {} => sub'.closedBy = "caller"
             /\ (sub.unsubs >= 1 \/ sub.closedBy = "disconnect") =>
                   sub' = [sub EXCEPT !.unsubs = sub.unsubs + 1]]_vars

\* the action of a live subscription was called before disconnect() and
\* again after it
C11_Witness ==
    /\ sub.handle = "closer"
    /\ sub.closedBy = "caller"
    /\ sub.unsubs >= 2
    /\ sub.calledPool
    /\ ~pool

\* C12: subscribe() on a client without a pool, or with no filter, opens no
\* relay subscription, never calls onEvent, returns an unsubscribe action
\* without effect and leaves the client as it was.
C12_SubscribeNoop ==
    /\ []((sub.handle # "none" /\ (~sub.calledPool \/ sub.nFilters = 0)) =>
              /\ sub.handle = "noop"
              /\ sub.why \in {"NotConnected", "NoFilters"}
              /\ sub.filter = 0
              /\ sub.relayOpen = {}
              /\ sub.delivered = 0
              /\ sub.closedBy = "none")
    /\ [][(sub' # sub /\ sub'.handle = "noop") =>
             UNCHANGED <<pool, conns, secretKey, publicKey, isConnected, stored>>]_vars

\* the no-op action of a subscribe() with an empty filter list on a
\* connected client was called
C12_Witness ==
    /\ sub.why = "NoFilters"
    /\ sub.calledPool
    /\ isConnected
    /\ sub.unsubs >= 1

\* C13: a fetch whose relays all close with a completion signal resolves
\* with the events delivered before the completion, in arrival order; with
\* no event delivered it resolves with the empty list, not an error.
C13_ResolvesWithArrivedEvents ==
    /\ fet.state = "resolved" => (fet.result = fet.arrived /\ fet.err = "none")
    /\ (/\ fet.closeFired
        /\ fet.err # "Timeout"
        /\ \A r \in Relays : fet.reason[r] \in {"auto-eose", "EOSE"}) =>
          /\ fet.state = "resolved"
          /\ fet.result = fet.arrived
          /\ fet.rejects = 0

\* every relay signalled EOSE without delivering an event, and the call has
\* resolved with the empty list
C13_Witness ==
    /\ fet.state = "resolved"
    /\ fet.result = <<>>
    /\ fet.arrived = <<>>
    /\ \A r \in Relays : fet.reason[r] = "auto-eose"

\* a pending fetch has a running timer that has counted every tick since the
\* call; a timeout rejection happens exactly timeoutMs after the call
C14_TimeoutTiming ==
    /\ fet.state = "pending" => (fet.timer >= 0 /\ fet.elapsed = fet.timeoutMs - fet.timer)
    /\ fet.err = "Timeout" =>
          /\ fet.state = "rejected"
          /\ fet.elapsed = fet.timeoutMs
          /\ fet.timer = -1
          /\ fet.resolves = 0
    /\ (/\ fet.timeoutMs > 0
        /\ fet.timer = -1
        /\ ~fet.eoseSeen
        /\ \A r \in Relays : fet.reason[r] = "by-caller") =>
          /\ fet.state = "rejected"
          /\ fet.err = "Timeout"

\* C14: a fetch against relays that neither signal completion nor close is
\* rejected with the timeout error, never resolved, exactly timeoutMs after
\* the call; every fetch on a connected client is eventually settled.
C14_TimeoutSettles ==
    /\ []C14_TimeoutTiming
    /\ (fet.state = "pending") ~> (fet.state \in {"resolved", "rejected"})

\* the relays stayed silent for the longest timeout and the call was
\* rejected by its timer
C14_Witness ==
    /\ fet.err = "Timeout"
    /\ fet.timeoutMs = MaxTimeout
    /\ fet.elapsed = MaxTimeout
    /\ fet.events = <<>>
    /\ \A r \in Relays : fet.reason[r] = "by-caller"

\* C15: no step of a publish() or fetch() call, failing ones included,
\* changes the pool, the keys or the connected flag, and a call made after a
\* failed one starts as a first call does: a first attempt with the whole
\* retry budget, or an open subscription with a fresh latch and a full timer.
C15_FailedCallsRetryable ==
    [][/\ (pub'.state # pub.state \/ pub'.attempt # pub.attempt \/ fet'.state # fet.state) =>
             UNCHANGED <<pool, secretKey, publicKey, isConnected>>
       /\ (pub.state = "rejected" /\ pub'.state # "rejected") =>
             /\ pub'.state = "attempting"
             /\ pub'.attempt = 1
             /\ pub'.delays = <<>>
             /\ Cardinality(pub'.sent) = 1
       /\ (fet.state = "rejected" /\ fet'.state # "rejected") =>
             /\ fet'.state = "pending"
             /\ ~fet'.resolved
             /\ fet'.subOpen
             /\ fet'.timer = fet'.timeoutMs
             /\ fet'.events = <<>>
             /\ \A r \in Relays : fet'.relay[r] = "open"]_vars

\* a publish() ran out of attempts and a fetch() timed out, and the client
\* is connected with the keys and the pool it had
C15_Witness ==
    /\ pub.err = "PublishFailed"
    /\ fet.err = "Timeout"
    /\ pub.calledConnected
    /\ isConnected
    /\ pool
    /\ publicKey = <<"pub", secretKey>>

\* C16: whenever the promise of a fetch() that opened a subscription is
\* settled, by completion, by every relay closing without completion or by
\* the timeout, sub.close() has run once and no relay subscription of the
\* call is open; a subscription is open only while the call is pending.
C16_SettledFetchClosedSub ==
    /\ (fet.state \in {"resolved", "rejected"} /\ fet.timeoutMs > 0) =>
          /\ ~fet.subOpen
          /\ fet.subCloses = 1
          /\ \A r \in Relays : fet.relay[r] = "closed" /\ fet.reason[r] # "none"
    /\ fet.subOpen => fet.state = "pending"
    /\ (\E r \in Relays : fet.relay[r] \in {"open", "eose"}) => fet.state = "pending"

\* every relay closed without completion before the timer was due, and the
\* call was rejected with its subscription closed
C16_Witness ==
    /\ fet.err = "NoRelayResponse"
    /\ fet.timer > 0
    /\ fet.subCloses = 1
    /\ ~fet.subOpen

\* C17: when the close callback settles a fetch(), the call resolves with
\* the accumulated events if and only if some close reason is a string that
\* contains "eose" in any letter case, whatever the other relays closed with;
\* otherwise it is rejected with the no-relay-response error.
C17_EoseMembership ==
    (fet.closeFired /\ fet.err # "Timeout") =>
        IF \E r \in Relays : fet.reason[r] \in {"auto-eose", "EOSE"}
        THEN /\ fet.state = "resolved"
             /\ fet.result = fet.events
        ELSE /\ fet.state = "rejected"
             /\ fet.err = "NoRelayResponse"

\* one relay closed with "EOSE", every other one with an error, and the
\* call resolved
C17_Witness ==
    /\ fet.state = "resolved"
    /\ fet.closeFired
    /\ Cardinality({r \in Relays : fet.reason[r] = "EOSE"}) = 1
    /\ \A r \in Relays : fet.reason[r] \in {"EOSE", "conn-closed", "non-string"}
    /\ \E r \in Relays : fet.reason[r] # "EOSE"

\* C18: in every state reached by connect(), disconnect(), publish(),
\* subscribe() and fetch() calls, isConnected is true exactly when the pool
\* exists, and a connected client holds a secret key and the public key
\* derived from it.
C18_ConnectedIffPool ==
    /\ isConnected <=> pool
    /\ isConnected =>
          /\ secretKey # NullKey
          /\ secretKey \in ValidKeys
          /\ publicKey = <<"pub", secretKey>>

\* publish(), fetch() and subscribe() were called on a client that was
\* connected again after a disconnect()
C18_Witness ==
    /\ isConnected
    /\ pool
    /\ io = NoIo
    /\ pub.state = "attempting"
    /\ fet.state = "pending"
    /\ sub.handle = "closer"
    /\ sub.relayOpen = Relays
    /\ publicKey = firstPub

\* C19: a publish() call signs its template once, and every attempt of the
\* call, retries included, sends that one signed event, with the created_at
\* of the call.
C19_SignedOnce ==
    /\ pub.signs <= 1
    /\ pub.sent # {} => (pub.signs = 1 /\ pub.event # NoEvent)
    /\ \A s \in pub.sent : s.event = pub.event
    /\ Cardinality({s.event : s \in pub.sent}) <= 1
    /\ Cardinality(pub.sent) = Cardinality({s.attempt : s \in pub.sent})

\* three attempts were sent, the last two at least two ticks after the
\* event was signed
C19_Witness ==
    /\ Cardinality(pub.sent) = 3
    /\ pub.attempt = 3
    /\ now >= pub.event.created_at + 2

\* C20: while the client is disconnected no attempt of a publish() sends to
\* a relay: an attempt that starts then fails without sending, and the call
\* does not succeed; every event ever sent was sent by a connected client.
C20_NoSendWhileDisconnected ==
    /\ [](\A s \in pub.sent : s.connected)
    /\ [][(~pool /\ ~pool') =>
             /\ pub'.sent \subseteq pub.sent
             /\ ~(pub'.state = "resolved" /\ pub.state # "resolved")
             /\ pub'.attempt = pub.attempt + 1 =>
                   /\ pub'.state \in {"backoff", "rejected"}
                   /\ pub'.outcome = NoOutcome]_vars

\* disconnect() came after the first attempt; the two retries started on
\* the disconnected client, sent nothing, and the call was rejected
C20_Witness ==
    /\ ~pool
    /\ ~isConnected
    /\ pub.err = "PublishFailed"
    /\ pub.attempt = 3
    /\ Cardinality(pub.sent) = 1

====
